---- MODULE Spec2Model ----
(***************************************************************************)
(* Half-edge mesh kernel (Douconel): construction of a mesh from a face    *)
(* list (from_faces), the three verification passes and the traversal      *)
(* primitives, modelled from src/src/douconel.rs.                          *)
(*                                                                         *)
(* Handles (slotmap keys) are modelled as positive naturals handed out in  *)
(* insertion order; keys() enumerates them in increasing order.            *)
(***************************************************************************)
EXTENDS Integers, Sequences, FiniteSets, TLC

VARIABLES
    faces,               \* the argument of from_faces: a list of index lists
    pc,                  \* position inside from_faces / after its return
    result,              \* "running", "Ok", "Err" (bail!) or "panic"
    diag,                \* which bail!/panic! produced the result
    inp_face_id,         \* number of input faces already processed
    mesh_verts,          \* mesh.verts  (live VertID handles)
    mesh_edges,          \* mesh.edges  (live EdgeID handles)
    mesh_faces,          \* mesh.faces  (live FaceID handles)
    edge_root, edge_face, edge_next, edge_twin,
    vert_rep, face_rep,
    vertex_pointers,     \* VertMap: set of <<input index, VertID>>
    face_pointers,       \* FaceMap: set of <<input position, FaceID>>
    vert_to_edge, face_to_edge, endpoints_to_edges,
    checks,              \* results of the three verification passes, or <<>>
    orig,                \* the mesh a round trip started from, or <<>>
    edits,               \* number of inserts/removes done on the public arenas
    vertex_positions,    \* the argument of from_embedded_faces
    position,            \* payload of mesh.verts: VertID -> position
    embedded,            \* outcome of from_embedded_faces, or "none"
    neighbors,           \* neighbor_function: node -> list of nodes
    weights,             \* weight_function: <<node, node>> -> weight
    cache,               \* the caller's cache: node -> list of <<node, weight>>
    query,               \* the last search asked for
    found,               \* what the last search returned
    heap_order,          \* how the binary heap orders entries of equal cost
    defect,              \* what the geometry tests say about the faces, or <<>>
    buffer,              \* Memory::buffer
    free,                \* Memory::free
    in_use,              \* indices handed out by alloc and not given back
    aliased              \* alloc has handed out an index that was live

vars == <<faces, pc, result, diag, inp_face_id, mesh_verts, mesh_edges,
          mesh_faces, edge_root, edge_face, edge_next, edge_twin, vert_rep,
          face_rep, vertex_pointers, face_pointers, vert_to_edge,
          face_to_edge, endpoints_to_edges, checks, orig, edits,
          vertex_positions, position, embedded, neighbors, weights, cache,
          query, found, heap_order, defect, buffer, free, in_use,
          aliased>>

meshvars == <<mesh_verts, mesh_edges, mesh_faces, edge_root, edge_face,
              edge_next, edge_twin, vert_rep, face_rep>>

localvars == <<vert_to_edge, face_to_edge, endpoints_to_edges>>

aftervars == <<edits, vertex_positions, position, embedded, defect>>

pathvars == <<neighbors, weights, cache, query, found, heap_order>>

memvars == <<buffer, free, in_use, aliased>>

----------------------------------------------------------------------------
(* Bounds of the enumerated inputs. *)
MaxIdx == 3
MaxFaceLen == 3
MaxFaces == 2

MaxProbe == 24

(* The graphs searched by find_shortest_path have the nodes 1..MaxNodes. *)
MaxNodes == 3

(* Memory: at most MaxBuffer elements in buffer, MaxFree entries in free. *)
MaxBuffer == 3
MaxFree == 3

(* Arena edits: at most MaxEdits of them, on meshes of at most MaxEditable *)
(* half-edges.                                                             *)
MaxEdits == 2
MaxEditable == 6

(* verify_invariants: let max_face_size = 100 *)
max_face_size == 100

(* The value an accessor "returns" when it panics (handles start at 1). *)
Abort == 0

EmptyMap == [x \in {} |-> 0]

RECURSIVE SumLen(_)
SumLen(s) == IF s = <<>> THEN 0 ELSE Len(Head(s)) + SumLen(Tail(s))

(* faces.iter().flatten(): recursion over the faces, not over their elements *)
RECURSIVE flatten(_)
flatten(s) == IF s = <<>> THEN <<>> ELSE Head(s) \o flatten(Tail(s))

Range(s) == {s[k] : k \in DOMAIN s}

Min(S) == CHOOSE x \in S : \A y \in S : x <= y
Max(S) == CHOOSE x \in S : \A y \in S : x >= y

(* itertools unique(): the distinct elements in first-appearance order.   *)
(* firsts are the positions of first appearances; the r-th element of the  *)
(* result is the element at the r-th smallest of them.                     *)
unique(s) ==
    LET firsts == {k \in 1..Len(s) : \A j \in 1..(k - 1) : s[j] # s[k]}
    IN [r \in 1..Cardinality(firsts) |->
           s[CHOOSE k \in firsts : Cardinality({j \in firsts : j < k}) = r - 1]]

(* BiHashMap::get_by_left *)
get_by_left(m, l) == IF \E p \in m : p[1] = l
                     THEN (CHOOSE p \in m : p[1] = l)[2]
                     ELSE Abort

(* BiHashMap::get_by_right *)
get_by_right(m, r) == (CHOOSE p \in m : p[2] = r)[1]

(* HashMap::insert / SecondaryMap::insert: the new value replaces the old *)
insert(m, k, v) == (k :> v) @@ m

----------------------------------------------------------------------------
(* Inputs *)
Polygon(n) == [k \in 1..n |-> k - 1]
Reverse(s) == [k \in 1..Len(s) |-> s[Len(s) + 1 - k]]

Tetrahedron == << <<0, 2, 1>>, <<0, 1, 3>>, <<1, 2, 3>>, <<0, 3, 2>> >>

Cube == << <<0, 1, 2, 3>>, <<7, 6, 5, 4>>, <<0, 4, 5, 1>>,
           <<1, 5, 6, 2>>, <<2, 6, 7, 3>>, <<3, 7, 4, 0>> >>

(* two triangles glued back to back, indices non-contiguous and first   *)
(* appearing out of numeric order                                       *)
Pillow == << <<9, 4, 7>>, <<7, 4, 9>> >>

(* one face that visits vertex 0 twice; its pairs are each other's twins *)
Bowtie == << <<0, 1, 0, 2>> >>

(* two fans of faces that touch only at vertex 0 *)
TwoFans == << <<0, 1, 2>>, <<2, 1, 0>>, <<0, 3, 4>>, <<4, 3, 0>> >>

OpenTriangle == << <<0, 1, 2>> >>
DuplicateEdge == << <<0, 1, 2>>, <<0, 1, 3>> >>
EmptyThenDuplicate == << <<>>, <<0, 1, 2>>, <<0, 1, 3>> >>

(* a closed mesh of two n-gons back to back *)
Lens(n) == << Polygon(n), Reverse(Polygon(n)) >>

Scenarios == {Tetrahedron, Cube, Pillow, Bowtie, TwoFans, OpenTriangle,
              DuplicateEdge, EmptyThenDuplicate,
              Lens(max_face_size), Lens(max_face_size + 1)}

Idx == 0..(MaxIdx - 1)
FaceSet == UNION {[1..n -> Idx] : n \in 0..MaxFaceLen}
FaceLists == UNION {[1..m -> FaceSet] : m \in 0..MaxFaces}

Inputs == FaceLists \cup Scenarios

----------------------------------------------------------------------------
(* Douconel::new *)
new ==
    /\ mesh_verts = {}
    /\ mesh_edges = {}
    /\ mesh_faces = {}
    /\ edge_root = EmptyMap
    /\ edge_face = EmptyMap
    /\ edge_next = EmptyMap
    /\ edge_twin = EmptyMap
    /\ vert_rep = EmptyMap
    /\ face_rep = EmptyMap

Init ==
    /\ faces \in Inputs
    /\ pc = "vertices"
    /\ result = "running"
    /\ diag = "none"
    /\ inp_face_id = 0
    /\ new
    /\ vertex_pointers = {}
    /\ face_pointers = {}
    /\ vert_to_edge = EmptyMap
    /\ face_to_edge = EmptyMap
    /\ endpoints_to_edges = EmptyMap
    /\ checks = <<>>
    /\ orig = <<>>
    /\ edits = 0
    /\ vertex_positions = <<>>
    /\ position = EmptyMap
    /\ embedded = "none"
    /\ neighbors = <<>>
    /\ weights = EmptyMap
    /\ cache = EmptyMap
    /\ query = <<>>
    /\ found = <<>>
    /\ heap_order = "first"
    /\ defect = <<>>
    /\ buffer = <<>>
    /\ free = <<>>
    /\ in_use = {}
    /\ aliased = FALSE

(* from_faces leaves by bail! or panic!: the local mesh and maps are dropped *)
Leave(res, why) ==
    /\ pc' = "returned"
    /\ result' = res
    /\ diag' = why
    /\ mesh_verts' = {}
    /\ mesh_edges' = {}
    /\ mesh_faces' = {}
    /\ edge_root' = EmptyMap
    /\ edge_face' = EmptyMap
    /\ edge_next' = EmptyMap
    /\ edge_twin' = EmptyMap
    /\ vert_rep' = EmptyMap
    /\ face_rep' = EmptyMap
    /\ vertex_pointers' = {}
    /\ face_pointers' = {}
    /\ vert_to_edge' = EmptyMap
    /\ face_to_edge' = EmptyMap
    /\ endpoints_to_edges' = EmptyMap

(* 1. Create the vertices. *)
vertices == unique(flatten(faces))

CreateVertices ==
    /\ pc = "vertices"
    /\ LET vs == vertices
       IN /\ mesh_verts' = 1..Len(vs)
          /\ vertex_pointers' = {<<vs[k], k>> : k \in 1..Len(vs)}
    /\ pc' = "faces"
    /\ UNCHANGED <<faces, result, diag, inp_face_id, mesh_edges, mesh_faces,
                   edge_root, edge_face, edge_next, edge_twin, vert_rep,
                   face_rep, face_pointers, localvars, checks, orig, aftervars, pathvars, memvars>>

(* the (start, end) VertID pairs of one input face: conc.tuple_windows() *)
conc(inp_face_edges) == Append(inp_face_edges, inp_face_edges[1])

face_edge_pairs(inp_face_edges) ==
    LET c == conc(inp_face_edges)
    IN [k \in 1..(Len(c) - 1) |->
           <<get_by_left(vertex_pointers, c[k]),
             get_by_left(vertex_pointers, c[k + 1])>>]

(* The loop "for (start_vertex, end_vertex) in edges" of one face, given   *)
(* the number of edges inserted before it (base) and the endpoint pairs.    *)
(* The k-th iteration inserts edge base + k.                                *)

(* the bail! of the loop is taken: some pair is already a key of            *)
(* endpoints_to_edges, from an earlier face or an earlier iteration         *)
edge_exists(pairs) ==
    \E k \in 1..Len(pairs) :
        \/ pairs[k] \in DOMAIN endpoints_to_edges
        \/ \E j \in 1..(k - 1) : pairs[j] = pairs[k]

edge_ids_of(base, pairs) == [k \in 1..Len(pairs) |-> base + k]

(* endpoints_to_edges.insert((start_vertex, end_vertex), edge_id) *)
endpoints_after(base, pairs) ==
    [key \in DOMAIN endpoints_to_edges \cup Range(pairs) |->
        IF key \in Range(pairs)
        THEN base + (CHOOSE k \in 1..Len(pairs) : pairs[k] = key)
        ELSE endpoints_to_edges[key]]

(* mesh.edge_root.insert(edge_id, start_vertex) *)
root_after(base, pairs) ==
    [e \in DOMAIN edge_root \cup Range(edge_ids_of(base, pairs)) |->
        IF e > base THEN pairs[e - base][1] ELSE edge_root[e]]

(* a slip in the face bookkeeping: every half-edge is given the first face *)
face_after_first(base, pairs, face_id) ==
    [e \in DOMAIN edge_face \cup Range(edge_ids_of(base, pairs)) |->
        IF e > base THEN 1 ELSE edge_face[e]]

(* mesh.edge_face.insert(edge_id, face_id) *)
face_after(base, pairs, face_id) ==
    [e \in DOMAIN edge_face \cup Range(edge_ids_of(base, pairs)) |->
        IF e > base THEN face_id ELSE edge_face[e]]

(* a slip in the bookkeeping: the half-edge is filed under its end vertex *)
vert_to_edge_by_end(base, pairs) ==
    LET ends == {pairs[k][2] : k \in 1..Len(pairs)}
    IN [v \in DOMAIN vert_to_edge \cup ends |->
           IF v \in ends
           THEN base + Max({k \in 1..Len(pairs) : pairs[k][2] = v})
           ELSE vert_to_edge[v]]

(* vert_to_edge.insert(start_vertex, edge_id): the last insert for a vertex *)
(* is the one that stays                                                    *)
vert_to_edge_after(base, pairs) ==
    LET starts == {pairs[k][1] : k \in 1..Len(pairs)}
    IN [v \in DOMAIN vert_to_edge \cup starts |->
           IF v \in starts
           THEN base + Max({k \in 1..Len(pairs) : pairs[k][1] = v})
           ELSE vert_to_edge[v]]

(* a slip in the choice of the representative: the last half-edge created *)
last_edge(edge_ids) == edge_ids[Len(edge_ids)]

(* face_to_edge.insert(face_id, *edge_ids.first().unwrap()) *)
first_edge(edge_ids) == edge_ids[1]

(* a slip in the linking: every half-edge is linked to the first one *)
next_of_first(edge_ids) == [e \in Range(edge_ids) |-> edge_ids[1]]

(* "Linking each edge to its next edge in the face":                        *)
(* edge_next[edge_ids[i]] = edge_ids[(i + 1) % len], i counted from 0       *)
next_of(edge_ids) ==
    [e \in Range(edge_ids) |->
        LET k == CHOOSE j \in 1..Len(edge_ids) : edge_ids[j] = e
        IN edge_ids[(k % Len(edge_ids)) + 1]]

(* 2. Create the faces with its (half)edges: one iteration of the loop over *)
(* faces.iter().enumerate()                                                 *)
CreateFace ==
    /\ pc = "faces"
    /\ inp_face_id < Len(faces)
    /\ LET inp_face_edges == faces[inp_face_id + 1]
           face_id == Cardinality(mesh_faces) + 1
       IN IF inp_face_edges = <<>>
          THEN (* inp_face_edges[0] on an empty Vec: index out of bounds *)
               /\ Leave("panic", "index out of bounds")
               /\ UNCHANGED <<faces, inp_face_id, checks, orig, aftervars, pathvars, memvars>>
          ELSE LET pairs == face_edge_pairs(inp_face_edges)
                   base == Cardinality(mesh_edges)
                   edge_ids == edge_ids_of(base, pairs)
               IN IF edge_exists(pairs)
                  THEN /\ Leave("Err", "Edge already exists")
                       /\ UNCHANGED <<faces, inp_face_id, checks, orig, aftervars, pathvars, memvars>>
                  ELSE /\ mesh_faces' = mesh_faces \cup {face_id}
                       /\ face_pointers' =
                              face_pointers \cup {<<inp_face_id, face_id>>}
                       /\ mesh_edges' = mesh_edges \cup Range(edge_ids)
                       /\ endpoints_to_edges' = endpoints_after(base, pairs)
                       /\ edge_root' = root_after(base, pairs)
                       /\ edge_face' = face_after(base, pairs, face_id)
                       /\ vert_to_edge' = vert_to_edge_after(base, pairs)
                       /\ face_to_edge' =
                              insert(face_to_edge, face_id, first_edge(edge_ids))
                       /\ edge_next' = next_of(edge_ids) @@ edge_next
                       /\ inp_face_id' = inp_face_id + 1
                       /\ UNCHANGED <<faces, pc, result, diag, mesh_verts,
                                      edge_twin, vert_rep, face_rep,
                                      vertex_pointers, checks, orig, aftervars, pathvars, memvars>>

(* 3. Assign representatives to vertices and faces *)
AssignReps ==
    /\ pc = "faces"
    /\ inp_face_id = Len(faces)
    /\ IF \E v \in mesh_verts : v \notin DOMAIN vert_to_edge
       THEN /\ Leave("panic", "no representative edge")
            /\ UNCHANGED <<faces, inp_face_id, checks, orig, aftervars, pathvars, memvars>>
       ELSE /\ vert_rep' = [v \in mesh_verts |-> vert_to_edge[v]]
            /\ face_rep' = [f \in mesh_faces |-> face_to_edge[f]]
            /\ pc' = "twins"
            /\ UNCHANGED <<faces, result, diag, inp_face_id, mesh_verts,
                           mesh_edges, mesh_faces, edge_root, edge_face,
                           edge_next, edge_twin, vertex_pointers,
                           face_pointers, localvars, checks, orig, aftervars, pathvars, memvars>>

(* a slip in the lookup: some half-edge that starts at b, taken from      *)
(* vert_to_edge, instead of the half-edge stored under (b, a)             *)
twin_id_by_root(key) == vert_to_edge[key[2]]

(* a slip in the lookup: the key is not reversed *)
twin_id_self(key) == endpoints_to_edges[key]

(* the twin the loop of step 4 assigns to the edge stored under (a, b) *)
twin_id(key) == endpoints_to_edges[<<key[2], key[1]>>]

(* 4. Assign twins.  The loop runs over a HashMap, in an unspecified order; *)
(* every order panics when some key has no reversed key, and every order    *)
(* writes the same map otherwise.                                           *)
AssignTwins ==
    /\ pc = "twins"
    /\ IF \E key \in DOMAIN endpoints_to_edges :
              <<key[2], key[1]>> \notin DOMAIN endpoints_to_edges
       THEN /\ Leave("panic", "does not have a twin")
            /\ UNCHANGED <<faces, inp_face_id, checks, orig, aftervars, pathvars, memvars>>
       ELSE /\ edge_twin' = [e \in {endpoints_to_edges[key] :
                                       key \in DOMAIN endpoints_to_edges} |->
                               twin_id(CHOOSE key \in DOMAIN endpoints_to_edges :
                                           endpoints_to_edges[key] = e)]
            /\ pc' = "returned"
            /\ result' = "Ok"
            /\ UNCHANGED <<faces, diag, inp_face_id, mesh_verts, mesh_edges,
                           mesh_faces, edge_root, edge_face, edge_next,
                           vert_rep, face_rep, vertex_pointers, face_pointers,
                           localvars, checks, orig, aftervars, pathvars, memvars>>

----------------------------------------------------------------------------
(* Accessors.  A panic! or failed assert! is modelled by the value Abort.   *)

(* a slip: the representative handed out is the twin of the stored one *)
vrep_twin(id) ==
    IF id \in DOMAIN vert_rep /\ vert_rep[id] \in DOMAIN edge_twin
    THEN edge_twin[vert_rep[id]] ELSE Abort

vrep(id) == IF id \in DOMAIN vert_rep THEN vert_rep[id] ELSE Abort

frep(id) == IF id \in DOMAIN face_rep THEN face_rep[id] ELSE Abort

(* a slip: the assert! on the liveness of the root is left out *)
root_unchecked(id) == IF id \in DOMAIN edge_root THEN edge_root[id] ELSE Abort

root(id) ==
    IF id \in DOMAIN edge_root /\ edge_root[id] \in mesh_verts
    THEN edge_root[id] ELSE Abort

twin(id) ==
    IF id \in DOMAIN edge_twin /\ edge_twin[id] \in mesh_edges
    THEN edge_twin[id] ELSE Abort

next(id) ==
    IF id \in DOMAIN edge_next /\ edge_next[id] \in mesh_edges
    THEN edge_next[id] ELSE Abort

face(id) ==
    IF id \in DOMAIN edge_face /\ edge_face[id] \in mesh_faces
    THEN edge_face[id] ELSE Abort

endpoints(id) == <<root(id), root(twin(id))>>

(* <<next(id), next(next(id)), ...>>, k elements: the ids a loop that keeps *)
(* calling next visits.  The walk is split in halves so that the depth of   *)
(* the recursion is logarithmic in k.                                       *)
RECURSIVE next_walk(_, _)
next_walk(id, k) ==
    IF k <= 0 THEN <<>>
    ELSE IF k = 1 THEN <<next(id)>>
    ELSE LET h == k \div 2
             a == next_walk(id, h)
         IN a \o next_walk(a[h], k - h)

(* What a traversal yields when it does not return a list: an accessor      *)
(* panicked, or its loop never meets its exit condition.                    *)
NoReturn == <<Abort>>

(* a slip in the loop: next is pushed before it is compared with frep(id) *)
edges_closed(id) ==
    LET rep == frep(id)
        w == next_walk(rep, Cardinality(mesh_edges) + 1)
        hits == {k \in 1..Len(w) : w[k] = rep}
    IN IF rep = Abort \/ hits = {} THEN NoReturn
       ELSE <<rep>> \o SubSeq(w, 1, Min(hits))

(* Douconel::edges: push next(last) until next(last) is frep(id) *)
edges(id) ==
    LET rep == frep(id)
        w == next_walk(rep, Cardinality(mesh_edges) + 1)
        hits == {k \in 1..Len(w) : w[k] = rep}
    IN IF rep = Abort \/ hits = {} THEN NoReturn
       ELSE <<rep>> \o SubSeq(w, 1, Min(hits) - 1)

(* a slip in the order: the roots are listed from the last half-edge back *)
corners_reversed(id) ==
    LET es == edges(id)
    IN IF es = NoReturn \/ \E k \in 1..Len(es) : root(es[k]) = Abort
       THEN NoReturn
       ELSE [k \in 1..Len(es) |-> root(es[Len(es) + 1 - k])]

(* Douconel::corners *)
corners(id) ==
    LET es == edges(id)
    IN IF es = NoReturn \/ \E k \in 1..Len(es) : root(es[k]) = Abort
       THEN NoReturn
       ELSE [k \in 1..Len(es) |-> root(es[k])]

(* <<g(id), g(g(id)), ...>> for g = next of twin, k elements: the ids the  *)
(* loop of outgoing computes, again with a recursion of logarithmic depth  *)
RECURSIVE twin_next_walk(_, _)
twin_next_walk(id, k) ==
    IF k <= 0 THEN <<>>
    ELSE IF k = 1 THEN <<next(twin(id))>>
    ELSE LET h == k \div 2
             a == twin_next_walk(id, h)
         IN a \o twin_next_walk(a[h], k - h)

(* Douconel::outgoing: push next(twin(last)) until it is already in the    *)
(* list.  The walk is tried with k steps and with twice as many when no    *)
(* repeat shows up; a walk of more steps than there are half-edges (plus   *)
(* the representative) must repeat.                                        *)
RECURSIVE outgoing_within(_, _)
outgoing_within(id, k) ==
    LET rep == vrep(id)
        w == twin_next_walk(rep, k)
        stops == {m \in 1..Len(w) :
                     w[m] = rep \/ w[m] = Abort
                         \/ \E j \in 1..(m - 1) : w[j] = w[m]}
    IN IF rep = Abort THEN NoReturn
       ELSE IF stops = {}
            THEN IF k > Cardinality(mesh_edges) + 1 THEN NoReturn
                 ELSE outgoing_within(id, 2 * k)
       ELSE IF w[Min(stops)] = Abort THEN NoReturn
       ELSE <<rep>> \o SubSeq(w, 1, Min(stops) - 1)

outgoing(id) == outgoing_within(id, 4)

(* Douconel::star *)
star(id) ==
    LET og == outgoing(id)
    IN IF og = NoReturn \/ \E k \in 1..Len(og) : face(og[k]) = Abort
       THEN NoReturn
       ELSE [k \in 1..Len(og) |-> face(og[k])]

(* Douconel::vneighbors *)
vneighbors(id) ==
    LET og == outgoing(id)
    IN IF og = NoReturn \/ \E k \in 1..Len(og) : root(twin(og[k])) = Abort
       THEN NoReturn
       ELSE [k \in 1..Len(og) |-> root(twin(og[k]))]

(* Option::None *)
None == <<>>

(* Douconel::edge_between_verts: the first pair, in the order of the two   *)
(* nested loops, with twin(edge_a_id) == edge_b_id                         *)
edge_between_verts(id_a, id_b) ==
    LET edges_a == outgoing(id_a)
        edges_b == outgoing(id_b)
        matches == {i \in 1..Len(edges_a) : twin(edges_a[i]) \in Range(edges_b)}
    IN IF edges_a = NoReturn \/ edges_b = NoReturn THEN NoReturn
       ELSE IF \E i \in 1..Len(edges_a) :
                  twin(edges_a[i]) = Abort
                      /\ \A j \in 1..(i - 1) : j \notin matches
            THEN NoReturn
       ELSE IF matches = {} THEN None
       ELSE <<edges_a[Min(matches)], twin(edges_a[Min(matches)])>>

(* NoReturn for a traversal that yields a list of pairs *)
NoReturnPairs == << <<Abort, Abort>> >>

(* a slip in the filter: the half-edge left out is the one arrived on *)
neighbor_function_edgepairgraph_uturn(pair) ==
    LET to == pair[2]
        nxt == twin(to)
        es == edges(face(nxt))
        keep(edge_id) == edge_id # to
        kept == SelectSeq(es, keep)
    IN IF nxt = Abort \/ face(nxt) = Abort \/ es = NoReturn
       THEN NoReturnPairs
       ELSE [k \in 1..Len(kept) |-> <<nxt, kept[k]>>]

(* Douconel::neighbor_function_edgepairgraph, the closure applied to pair *)
neighbor_function_edgepairgraph(pair) ==
    LET to == pair[2]
        nxt == twin(to)
        es == edges(face(nxt))
        keep(edge_id) == edge_id # nxt
        kept == SelectSeq(es, keep)
    IN IF nxt = Abort \/ face(nxt) = Abort \/ es = NoReturn
       THEN NoReturnPairs
       ELSE [k \in 1..Len(kept) |-> <<nxt, kept[k]>>]

nr_verts == Cardinality(mesh_verts)
(* a slip in the count: undirected edges instead of half-edges *)
nr_edges_undirected == Cardinality(mesh_edges) \div 2

nr_edges == Cardinality(mesh_edges)
nr_faces == Cardinality(mesh_faces)

----------------------------------------------------------------------------
(* The verification passes.  Each yields "Ok", "Err" (bail!) or "panic".    *)
(* keys() is walked in increasing handle order and the first handle whose   *)
(* iteration does not pass decides the outcome.                             *)

first_outcome(keys, outcome) ==
    LET bad == {k \in keys : outcome[k] # "Ok"}
    IN IF bad = {} THEN "Ok" ELSE outcome[Min(bad)]

then(r1, r2) == IF r1 = "Ok" THEN r2 ELSE r1

verify_properties ==
    IF /\ \A edge_id \in mesh_edges :
             /\ edge_id \in DOMAIN edge_root
             /\ edge_id \in DOMAIN edge_face
             /\ edge_id \in DOMAIN edge_next
             /\ edge_id \in DOMAIN edge_twin
       /\ \A vert_id \in mesh_verts : vert_id \in DOMAIN vert_rep
       /\ \A face_id \in mesh_faces : face_id \in DOMAIN face_rep
    THEN "Ok" ELSE "Err"

verify_references ==
    then(first_outcome(mesh_edges,
             [edge_id \in mesh_edges |->
                 IF Abort \in {root(edge_id), face(edge_id),
                               next(edge_id), twin(edge_id)}
                 THEN "panic" ELSE "Ok"]),
    then(first_outcome(mesh_verts,
             [vert_id \in mesh_verts |->
                 IF vert_id \notin DOMAIN vert_rep THEN "panic"
                 ELSE IF vert_rep[vert_id] \notin mesh_edges THEN "Err"
                 ELSE "Ok"]),
         first_outcome(mesh_faces,
             [face_id \in mesh_faces |->
                 IF face_id \notin DOMAIN face_rep THEN "panic"
                 ELSE IF face_rep[face_id] \notin mesh_edges THEN "Err"
                 ELSE "Ok"])))

(* a slip in the bound: one call of next too few *)
closes_short(edge_id) ==
    LET w == next_walk(edge_id, max_face_size - 1)
        hits == {k \in 1..Len(w) : w[k] = edge_id}
    IN IF hits # {} /\ \A k \in 1..Min(hits) : w[k] # Abort THEN "Ok"
       ELSE IF Abort \in Range(w) THEN "panic"
       ELSE "Err"

(* this->next->...->next == this, at most max_face_size calls of next *)
closes(edge_id) ==
    LET w == next_walk(edge_id, max_face_size)
        hits == {k \in 1..Len(w) : w[k] = edge_id}
    IN IF hits # {} /\ \A k \in 1..Min(hits) : w[k] # Abort THEN "Ok"
       ELSE IF Abort \in Range(w) THEN "panic"
       ELSE "Err"

(* this->twin->twin == this *)
twin_twin(edge_id) ==
    IF Abort \in {twin(edge_id), twin(twin(edge_id))} THEN "panic"
    ELSE IF twin(twin(edge_id)) # edge_id THEN "Err"
    ELSE "Ok"

(* this->twin->next->root == this->root *)
twin_next_root(edge_id) ==
    IF Abort \in {root(edge_id), twin(edge_id), next(twin(edge_id)),
                  root(next(twin(edge_id)))} THEN "panic"
    ELSE IF root(next(twin(edge_id))) # root(edge_id) THEN "Err"
    ELSE "Ok"

(* this->next->face == this->face *)
next_face(edge_id) ==
    IF Abort \in {face(edge_id), next(edge_id), face(next(edge_id))}
    THEN "panic"
    ELSE IF face(next(edge_id)) # face(edge_id) THEN "Err"
    ELSE "Ok"

verify_invariants ==
    then(first_outcome(mesh_edges,
             [edge_id \in mesh_edges |-> twin_twin(edge_id)]),
    then(first_outcome(mesh_edges,
             [edge_id \in mesh_edges |-> twin_next_root(edge_id)]),
    then(first_outcome(mesh_edges,
             [edge_id \in mesh_edges |-> next_face(edge_id)]),
         first_outcome(mesh_edges,
             [edge_id \in mesh_edges |-> closes(edge_id)]))))

(* the half-edge that the message of verify_invariants names: the first    *)
(* one, in keys() order, that fails the first loop that has a failure      *)
invariants_named ==
    LET b1 == {e \in mesh_edges : twin_twin(e) # "Ok"}
        b2 == {e \in mesh_edges : twin_next_root(e) # "Ok"}
        b3 == {e \in mesh_edges : next_face(e) # "Ok"}
        b4 == {e \in mesh_edges : closes(e) # "Ok"}
    IN IF b1 # {} THEN Min(b1)
       ELSE IF b2 # {} THEN Min(b2)
       ELSE IF b3 # {} THEN Min(b3)
       ELSE IF b4 # {} THEN Min(b4)
       ELSE Abort

(* the three calls the tests make on a constructed mesh *)
Verify ==
    /\ pc \in {"returned", "edited"}
    /\ result = "Ok"
    /\ checks = <<>>
    /\ checks' = [properties |-> verify_properties,
                  references |-> verify_references,
                  invariants |-> verify_invariants,
                  named |-> invariants_named]
    /\ UNCHANGED <<faces, pc, result, diag, inp_face_id, meshvars,
                   vertex_pointers, face_pointers, localvars, orig, aftervars, pathvars, memvars>>

----------------------------------------------------------------------------
(* Round trip: read the corner lists of a constructed mesh back and hand    *)
(* them to from_faces.  The faces are read in keys() order or in the        *)
(* opposite order (face_rev), and vertex v is renamed to the index v - 1 or *)
(* to nr_verts - v (vert_rev).                                              *)

rename(v, vert_rev) == IF vert_rev THEN nr_verts - v ELSE v - 1

face_at(i, face_rev) == IF face_rev THEN nr_faces + 1 - i ELSE i

corner_lists(vert_rev, face_rev) ==
    [i \in 1..nr_faces |->
        LET cs == corners(face_at(i, face_rev))
        IN [k \in 1..Len(cs) |-> rename(cs[k], vert_rev)]]

Rebuild ==
    /\ pc = "returned"
    /\ result = "Ok"
    /\ orig = <<>>
    /\ \A f \in mesh_faces : corners(f) # NoReturn
    /\ \E vert_rev \in BOOLEAN, face_rev \in BOOLEAN :
          /\ orig' = [verts |-> mesh_verts, edges |-> mesh_edges,
                      faces |-> mesh_faces,
                      root |-> edge_root, face |-> edge_face,
                      next |-> edge_next, twin |-> edge_twin,
                      edges_of |-> [f \in mesh_faces |-> edges(f)],
                      vert_rev |-> vert_rev, face_rev |-> face_rev]
          /\ faces' = corner_lists(vert_rev, face_rev)
    /\ pc' = "vertices"
    /\ result' = "running"
    /\ diag' = "none"
    /\ inp_face_id' = 0
    /\ mesh_verts' = {}
    /\ mesh_edges' = {}
    /\ mesh_faces' = {}
    /\ edge_root' = EmptyMap
    /\ edge_face' = EmptyMap
    /\ edge_next' = EmptyMap
    /\ edge_twin' = EmptyMap
    /\ vert_rep' = EmptyMap
    /\ face_rep' = EmptyMap
    /\ vertex_pointers' = {}
    /\ face_pointers' = {}
    /\ vert_to_edge' = EmptyMap
    /\ face_to_edge' = EmptyMap
    /\ endpoints_to_edges' = EmptyMap
    /\ checks' = <<>>
    /\ UNCHANGED <<aftervars, pathvars, memvars>>

----------------------------------------------------------------------------
(* Edits of the public arenas verts, edges and faces of a constructed mesh *)
(* (SlotMap::insert and SlotMap::remove).  The relation maps are private   *)
(* and keep what they hold: a removed element stays a key and a value of   *)
(* them, an inserted element has no relation.                              *)

editable ==
    /\ pc \in {"returned", "edited"}
    /\ result = "Ok"
    /\ orig = <<>>
    /\ embedded = "none"
    /\ edits < MaxEdits
    /\ Cardinality(DOMAIN edge_root) <= MaxEditable

(* a key that the arena has not handed out to an element with relations *)
fresh(live, known) == Max(live \cup known \cup {0}) + 1

edited ==
    /\ pc' = "edited"
    /\ edits' = edits + 1
    /\ checks' = <<>>
    /\ UNCHANGED <<faces, result, diag, inp_face_id, edge_root, edge_face,
                   edge_next, edge_twin, vert_rep, face_rep, vertex_pointers,
                   face_pointers, localvars, orig, vertex_positions, position,
                   embedded, defect, pathvars, memvars>>

RemoveVert ==
    /\ editable
    /\ \E v \in mesh_verts : mesh_verts' = mesh_verts \ {v}
    /\ edited
    /\ UNCHANGED <<mesh_edges, mesh_faces>>

RemoveEdge ==
    /\ editable
    /\ \E e \in mesh_edges : mesh_edges' = mesh_edges \ {e}
    /\ edited
    /\ UNCHANGED <<mesh_verts, mesh_faces>>

RemoveFace ==
    /\ editable
    /\ \E f \in mesh_faces : mesh_faces' = mesh_faces \ {f}
    /\ edited
    /\ UNCHANGED <<mesh_verts, mesh_edges>>

InsertVert ==
    /\ editable
    /\ mesh_verts' = mesh_verts \cup {fresh(mesh_verts, DOMAIN vert_rep)}
    /\ edited
    /\ UNCHANGED <<mesh_edges, mesh_faces>>

InsertEdge ==
    /\ editable
    /\ mesh_edges' = mesh_edges \cup {fresh(mesh_edges, DOMAIN edge_root)}
    /\ edited
    /\ UNCHANGED <<mesh_verts, mesh_faces>>

InsertFace ==
    /\ editable
    /\ mesh_faces' = mesh_faces \cup {fresh(mesh_faces, DOMAIN face_rep)}
    /\ edited
    /\ UNCHANGED <<mesh_verts, mesh_edges>>

----------------------------------------------------------------------------
(* Douconel::from_embedded_faces: from_faces, then the positions, then the *)
(* test that every face is a polygon.  A position is known by its place in *)
(* the input array: the position at index k is the token k + 1.  The       *)
(* vertex payload V::default() has the position Default.                   *)

Default == 0

position_counts == 0..(MaxIdx + 1)

(* a slip: the handle is taken by creation order, not from the index map *)
handle_at(inp_vertex_id) == inp_vertex_id + 1

(* vertex_map.get_by_left(&inp_vertex_id) *)
handle_of(inp_vertex_id) == get_by_left(vertex_pointers, inp_vertex_id)

(* the loop over vertex_positions.iter().copied().enumerate(): the pairs   *)
(* (vertex_id, inp_vertex_position) it comes to                            *)
applied(ps) == {<<handle_of(k - 1), ps[k]>> : k \in 1..Len(ps)}

(* one of the two unwrap_or_else(|| panic!(..)) of the loop is taken *)
position_panics(ps) ==
    \E q \in applied(ps) : q[1] = Abort \/ q[1] \notin mesh_verts

(* the positions of the vertices after the loop *)
set_position(ps) ==
    [v \in mesh_verts |->
        IF \E q \in applied(ps) : q[1] = v
        THEN (CHOOSE q \in applied(ps) : q[1] = v)[2]
        ELSE Default]

(* the tests on one face; what are_points_coplanar and                     *)
(* calculate_3d_lineseg_intersection say about the face is the input       *)
(* (skew, crossing)                                                         *)
(* of the one face that has a defect of the geometry, if there is one      *)
face_outcome(face_id, skew, crossing) ==
    LET cs == corners(face_id)
    IN IF cs = NoReturn THEN "panic"
       ELSE IF Len(cs) < 3 THEN "FaceNotPolygon"
       ELSE IF Len(cs) > 3 /\ skew THEN "FaceNotSimple"
       ELSE IF crossing THEN "FaceNotSimple"
       ELSE "Ok"

Embed ==
    /\ pc = "returned"
    /\ checks = <<>>
    /\ orig = <<>>
    /\ embedded = "none"
    /\ pc' = "embedded"
    /\ \E n \in position_counts, bad \in mesh_faces \cup {Abort},
          kind \in {"skew", "crossing", "both"} :
          LET ps == [k \in 1..n |-> k]
              polygonal ==
                  first_outcome(mesh_faces,
                      [f \in mesh_faces |->
                          face_outcome(f,
                              f = bad /\ kind \in {"skew", "both"},
                              f = bad /\ kind \in {"crossing", "both"})])
              outcome == IF result = "panic" THEN "panic"
                         ELSE IF result # "Ok" THEN "MeshError"
                         ELSE IF position_panics(ps) THEN "panic"
                         ELSE polygonal
          IN /\ vertex_positions' = ps
             /\ defect' = <<bad, kind>>
             /\ embedded' = outcome
             /\ IF outcome = "Ok"
                THEN /\ position' = set_position(ps)
                     /\ UNCHANGED <<meshvars, vertex_pointers, face_pointers>>
                ELSE /\ position' = EmptyMap
                     /\ mesh_verts' = {}
                     /\ mesh_edges' = {}
                     /\ mesh_faces' = {}
                     /\ edge_root' = EmptyMap
                     /\ edge_face' = EmptyMap
                     /\ edge_next' = EmptyMap
                     /\ edge_twin' = EmptyMap
                     /\ vert_rep' = EmptyMap
                     /\ face_rep' = EmptyMap
                     /\ vertex_pointers' = {}
                     /\ face_pointers' = {}
    /\ UNCHANGED <<faces, result, diag, inp_face_id, localvars, checks, orig,
                   edits, pathvars, memvars>>

----------------------------------------------------------------------------
(* The derived directed graphs (petgraph DiGraphMap).  A graph map is its  *)
(* set of nodes and its edges, a weight for each ordered pair of nodes;    *)
(* add_edge on a pair that has an edge replaces the weight.                *)

(* DiGraphMap::from_edges on the triples pushed for the keys in ids, in    *)
(* keys() order                                                            *)
from_edges(ids, triple) ==
    LET pairs == {<<triple[id][1], triple[id][2]>> : id \in ids}
    IN [nodes |-> {p[1] : p \in pairs} \cup {p[2] : p \in pairs},
        edges |-> [p \in pairs |->
                      triple[Max({id \in ids :
                          <<triple[id][1], triple[id][2]>> = p})][3]]]

(* a slip: the far end is taken without the twin *)
graph_edge_loop(id) == <<root(id), root(id), id>>

(* (self.root(id), self.root(self.twin(id)), id) *)
graph_edge(id) == <<root(id), root(twin(id)), id>>

(* self.length(id): the distance between the positions of the two ends *)
length(id) ==
    {IF v \in DOMAIN position THEN position[v] ELSE Default :
        v \in {root(id), root(twin(id))}}

(* (self.root(id), self.root(self.twin(id)), self.length(id)) *)
graph_euclidean_edge(id) ==
    <<graph_edge(id)[1], graph_edge(id)[2], length(id)>>

(* root or twin panics while the triples are collected *)
graph_panics ==
    \E id \in mesh_edges : Abort \in {root(id), twin(id), root(twin(id))}

(* Douconel::graph *)
graph ==
    from_edges(mesh_edges, [id \in mesh_edges |-> graph_edge(id)])

(* Douconel::graph_euclidean *)
graph_euclidean ==
    from_edges(mesh_edges, [id \in mesh_edges |-> graph_euclidean_edge(id)])

(* GraphMap::node_count, GraphMap::edge_count *)
node_count(g) == Cardinality(g.nodes)
edge_count(g) == Cardinality(DOMAIN g.edges)

----------------------------------------------------------------------------
(* find_shortest_path and find_shortest_cycle, on any node type T with a   *)
(* neighbor function and a weight function.  Here T is 1..MaxNodes,        *)
(* neighbors[x] is the list neighbor_function(x) and weights[<<x, y>>] is  *)
(* weight_function(x, y), a small natural (exact as OrderedFloat<f32>).    *)
(* An Option is None or <<path, cost>>.                                    *)

Nodes == 1..MaxNodes

succ(x) == (x % MaxNodes) + 1

(* the neighbor lists a node can have *)
NeighborLists(x) ==
    {<<>>, <<succ(x)>>, <<succ(succ(x))>>, <<succ(x), succ(succ(x))>>,
     <<succ(succ(x)), succ(x)>>, <<x, succ(x)>>}

NeighborFunctions ==
    {nf \in [Nodes -> UNION {NeighborLists(x) : x \in Nodes}] :
        \A x \in Nodes : nf[x] \in NeighborLists(x)}

unit == [p \in Nodes \X Nodes |-> 1]
ring == [p \in Nodes \X Nodes |-> IF p[2] = succ(p[1]) THEN 1 ELSE 5]
uphill == [p \in Nodes \X Nodes |-> IF p[1] < p[2] THEN 0 ELSE 2]

WeightFunctions == {unit, ring, uphill}

(* neighbor_function(elem).iter().map(|&neighbor| (neighbor,               *)
(* weight_function(elem, neighbor))).collect_vec()                         *)
computed(elem) ==
    [k \in 1..Len(neighbors[elem]) |->
        <<neighbors[elem][k], weights[<<elem, neighbors[elem][k]>>]>>]

(* a slip: the first cached neighbor is lost *)
lookup_rest(c, elem) == SubSeq(c[elem], 2, Len(c[elem]))

(* cache[&elem].clone() *)
lookup(c, elem) == c[elem]

(* the successors closure: what it returns and the cache it leaves *)
successors(c, elem) ==
    IF elem \in DOMAIN c THEN lookup(c, elem) ELSE computed(elem)

cache_after(c, elem) ==
    IF elem \in DOMAIN c THEN c ELSE insert(c, elem, computed(elem))

(* pathfinding::prelude::dijkstra.  parents is the index map in insertion  *)
(* order, each entry the node, the index of its parent (0 for the start)   *)
(* and its cost; heap is the binary heap as the list of its entries        *)
(* <<cost, index>> in the order they were pushed.                          *)
index_of(parents, node) ==
    LET at == {i \in 1..Len(parents) : parents[i].node = node}
    IN IF at = {} THEN 0 ELSE Min(at)

(* the loop over the successors of the node at index, from the k-th on *)
RECURSIVE relax(_, _, _, _, _, _)
relax(heap, parents, index, cost, succs, k) ==
    IF k > Len(succs) THEN [heap |-> heap, parents |-> parents]
    ELSE LET successor == succs[k][1]
             new_cost == cost + succs[k][2]
             at == index_of(parents, successor)
             entry == [node |-> successor, parent |-> index, cost |-> new_cost]
         IN IF at = 0
            THEN relax(Append(heap, <<new_cost, Len(parents) + 1>>),
                       Append(parents, entry), index, cost, succs, k + 1)
            ELSE IF parents[at].cost > new_cost
            THEN relax(Append(heap, <<new_cost, at>>),
                       [parents EXCEPT ![at] = entry], index, cost, succs,
                       k + 1)
            ELSE relax(heap, parents, index, cost, succs, k + 1)

(* a slip: a queue in place of the heap, the oldest entry is taken *)
popped_oldest(heap) == 1

(* the place in heap of the entry that pop takes: one of least cost *)
popped(heap) ==
    LET least == Min({heap[i][1] : i \in 1..Len(heap)})
        at == {i \in 1..Len(heap) : heap[i][1] = least}
    IN IF heap_order = "first" THEN Min(at) ELSE Max(at)

without(heap, i) == SubSeq(heap, 1, i - 1) \o SubSeq(heap, i + 1, Len(heap))

(* the while loop: target_reached (0 for None), parents and the cache *)
RECURSIVE run_dijkstra(_, _, _, _)
run_dijkstra(heap, parents, c, b) ==
    IF heap = <<>>
    THEN [reached |-> 0, parents |-> parents, cache |-> c]
    ELSE LET i == popped(heap)
             cost == heap[i][1]
             index == heap[i][2]
             node == parents[index].node
             rest == without(heap, i)
         IN IF node = b
            THEN [reached |-> index, parents |-> parents, cache |-> c]
            ELSE IF cost > parents[index].cost
            THEN run_dijkstra(rest, parents, c, b)
            ELSE LET r == relax(rest, parents, index, cost,
                                successors(c, node), 1)
                 IN run_dijkstra(r.heap, r.parents, cache_after(c, node), b)

(* the path to the entry at index, read back along the parents *)
RECURSIVE reverse_path(_, _)
reverse_path(parents, index) ==
    IF parents[index].parent = 0 THEN <<parents[index].node>>
    ELSE Append(reverse_path(parents, parents[index].parent),
                parents[index].node)

(* find_shortest_path(a, b, neighbor_function, weight_function, cache) *)
find_shortest_path(a, b, c) ==
    LET r == run_dijkstra(<< <<0, 1>> >>,
                          <<[node |-> a, parent |-> 0, cost |-> 0]>>, c, b)
    IN [result |-> IF r.reached = 0 THEN None
                   ELSE <<reverse_path(r.parents, r.reached),
                          r.parents[r.reached].cost>>,
        cache |-> r.cache]

(* the filter_map over neighbor_function(a): the caches between the calls  *)
(* and the Some results in order                                           *)
RECURSIVE cache_before(_, _, _)
cache_before(a, c, k) ==
    IF k <= 1 THEN c
    ELSE find_shortest_path(neighbors[a][k - 1], a,
                            cache_before(a, c, k - 1)).cache

(* a slip: the step from a to the neighbor is added to the cost *)
path_back_whole(a, c, k) ==
    LET r == find_shortest_path(neighbors[a][k], a,
                                cache_before(a, c, k)).result
    IN IF r = None THEN None
       ELSE <<r[1], r[2] + weights[<<a, neighbors[a][k]>>]>>

path_back(a, c, k) ==
    find_shortest_path(neighbors[a][k], a, cache_before(a, c, k)).result

(* a slip: of the results of least cost the last one is taken *)
cheapest_last(results) ==
    LET least == Min({results[i][2] : i \in 1..Len(results)})
    IN results[Max({i \in 1..Len(results) : results[i][2] = least})]

(* a slip: the results are not sorted, the first one is taken *)
cheapest_first(results) == results[1]

(* .sorted_by(|(_, cost1), (_, cost2)| cost1.cmp(cost2)).next(): the sort  *)
(* is stable, so of the results of least cost the first one is taken       *)
cheapest(results) ==
    LET least == Min({results[i][2] : i \in 1..Len(results)})
    IN results[Min({i \in 1..Len(results) : results[i][2] = least})]

(* find_shortest_cycle(a, neighbor_function, weight_function, cache) *)
find_shortest_cycle(a, c) ==
    LET n == Len(neighbors[a])
        all == [k \in 1..n |-> path_back(a, c, k)]
        some(r) == r # None
        results == SelectSeq(all, some)
    IN [result |-> IF results = <<>> THEN None
                   ELSE <<(<<a>> \o cheapest(results)[1]),
                          cheapest(results)[2]>>,
        cache |-> cache_before(a, c, n + 1)]

(* The searches on one graph, one after the other on the same cache, and   *)
(* the caller's choice of a new empty cache.                               *)
InitPath ==
    /\ faces = <<>>
    /\ pc = "search"
    /\ result = "none"
    /\ diag = "none"
    /\ inp_face_id = 0
    /\ new
    /\ vertex_pointers = {}
    /\ face_pointers = {}
    /\ vert_to_edge = EmptyMap
    /\ face_to_edge = EmptyMap
    /\ endpoints_to_edges = EmptyMap
    /\ checks = <<>>
    /\ orig = <<>>
    /\ edits = 0
    /\ vertex_positions = <<>>
    /\ position = EmptyMap
    /\ embedded = "none"
    /\ neighbors \in NeighborFunctions
    /\ weights \in WeightFunctions
    /\ cache = EmptyMap
    /\ query = <<>>
    /\ found = <<>>
    /\ heap_order \in {"first", "last"}
    /\ defect = <<>>
    /\ buffer = <<>>
    /\ free = <<>>
    /\ in_use = {}
    /\ aliased = FALSE

searchvars == <<faces, pc, result, diag, inp_face_id, meshvars,
                vertex_pointers, face_pointers, localvars, checks, orig,
                aftervars, neighbors, weights, heap_order, memvars>>

FindShortestPath ==
    /\ pc = "search"
    /\ \E a, b \in Nodes :
          LET r == find_shortest_path(a, b, cache)
          IN /\ query' = <<"path", a, b>>
             /\ found' = r.result
             /\ cache' = r.cache
    /\ UNCHANGED searchvars

FindShortestCycle ==
    /\ pc = "search"
    /\ \E a \in Nodes :
          LET r == find_shortest_cycle(a, cache)
          IN /\ query' = <<"cycle", a>>
             /\ found' = r.result
             /\ cache' = r.cache
    /\ UNCHANGED searchvars

(* HashMap::new() for the next search *)
FreshCache ==
    /\ pc = "search"
    /\ cache # EmptyMap
    /\ cache' = EmptyMap
    /\ UNCHANGED <<query, found>>
    /\ UNCHANGED searchvars

NextPath ==
    \/ FindShortestPath
    \/ FindShortestCycle
    \/ FreshCache

SpecPath == InitPath /\ [][NextPath]_vars

----------------------------------------------------------------------------
(* Memory<T>, the free-list arena of mem.rs.  buffer[k + 1] is the element *)
(* at index k; free is the stack of indices given back, its top at the     *)
(* end.  in_use and aliased keep the history the arena itself does not     *)
(* keep: the indices handed out and not given back since, and whether      *)
(* alloc ever handed out one of them.                                      *)

Values == {"p", "q"}

(* Memory::new *)
InitMem ==
    /\ faces = <<>>
    /\ pc = "memory"
    /\ result = "none"
    /\ diag = "none"
    /\ inp_face_id = 0
    /\ new
    /\ vertex_pointers = {}
    /\ face_pointers = {}
    /\ vert_to_edge = EmptyMap
    /\ face_to_edge = EmptyMap
    /\ endpoints_to_edges = EmptyMap
    /\ checks = <<>>
    /\ orig = <<>>
    /\ edits = 0
    /\ vertex_positions = <<>>
    /\ position = EmptyMap
    /\ embedded = "none"
    /\ neighbors = <<>>
    /\ weights = EmptyMap
    /\ cache = EmptyMap
    /\ query = <<>>
    /\ found = <<>>
    /\ heap_order = "first"
    /\ defect = <<>>
    /\ buffer = <<>>
    /\ free = <<>>
    /\ in_use = {}
    /\ aliased = FALSE

restvars == <<faces, pc, result, diag, inp_face_id, meshvars,
              vertex_pointers, face_pointers, localvars, checks, orig,
              aftervars, pathvars>>

(* what alloc returns: the top of free, or the index of the pushed element *)
alloc_index == IF free # <<>> THEN free[Len(free)] ELSE Len(buffer)

(* Memory::alloc *)
Alloc ==
    /\ pc = "memory"
    /\ free # <<>> \/ Len(buffer) < MaxBuffer
    /\ \E value \in Values :
          IF free # <<>>
          THEN /\ free' = SubSeq(free, 1, Len(free) - 1)
               /\ buffer' = [buffer EXCEPT ![alloc_index + 1] = value]
          ELSE /\ buffer' = Append(buffer, value)
               /\ free' = free
    /\ in_use' = in_use \cup {alloc_index}
    /\ aliased' = (aliased \/ alloc_index \in in_use)
    /\ UNCHANGED restvars

(* Memory::dealloc, called with an index that alloc has returned *)
Dealloc ==
    /\ pc = "memory"
    /\ Len(free) < MaxFree
    /\ \E ptr \in 0..(Len(buffer) - 1) :
          /\ free' = Append(free, ptr)
          /\ in_use' = in_use \ {ptr}
    /\ UNCHANGED <<buffer, aliased>>
    /\ UNCHANGED restvars

NextMem ==
    \/ Alloc
    \/ Dealloc

SpecMem == InitMem /\ [][NextMem]_vars

Next ==
    \/ CreateVertices
    \/ CreateFace
    \/ AssignReps
    \/ AssignTwins
    \/ Verify
    \/ Rebuild
    \/ RemoveVert
    \/ RemoveEdge
    \/ RemoveFace
    \/ InsertVert
    \/ InsertEdge
    \/ InsertFace
    \/ Embed

Spec == Init /\ [][Next]_vars

----------------------------------------------------------------------------
(* Properties of the input face list, stated on the input indices alone.    *)

(* the positions <<i, k>> of the directed index pairs of a face list *)
pair_positions(fs) ==
    UNION {{<<i, k>> : k \in 1..Len(fs[i])} : i \in 1..Len(fs)}

pair_at(fs, p) ==
    <<fs[p[1]][p[2]], fs[p[1]][(p[2] % Len(fs[p[1]])) + 1]>>

has_duplicate_pair(fs) ==
    \E p, q \in pair_positions(fs) : p # q /\ pair_at(fs, p) = pair_at(fs, q)

has_open_pair(fs) ==
    \E p \in pair_positions(fs) :
        \A q \in pair_positions(fs) :
            pair_at(fs, q) # <<pair_at(fs, p)[2], pair_at(fs, p)[1]>>

has_short_face(fs) == \E i \in 1..Len(fs) : Len(fs[i]) < 3

input_indices(fs) == UNION {Range(fs[i]) : i \in 1..Len(fs)}

returned_ok == pc = "returned" /\ result = "Ok"

no_mesh == mesh_verts = {} /\ mesh_edges = {} /\ mesh_faces = {}

----------------------------------------------------------------------------
(* C1: every mesh that from_faces returns passes verify_properties,         *)
(* verify_references and verify_invariants.                                 *)
C1_ConstructedMeshVerifies ==
    (pc = "returned" /\ checks # <<>>) =>
        /\ checks.properties = "Ok"
        /\ checks.references = "Ok"
        /\ checks.invariants = "Ok"

(* C2: a face list with a repeated directed pair makes from_faces return    *)
(* an error value for the duplicate edge, without a crash and without a     *)
(* mesh.                                                                    *)
C2_DuplicatePairIsReturnedError ==
    (pc = "returned" /\ has_duplicate_pair(faces)) =>
        (result = "Err" /\ diag = "Edge already exists" /\ no_mesh)

(* C3: a face list without repeated pair in which some pair has no reversed *)
(* counterpart makes from_faces return a non-watertight error value and no  *)
(* mesh.  Stated for lists of non-empty faces, on which the construction    *)
(* gets as far as the twin resolution.                                      *)
C3_OpenPairIsReturnedError ==
    (/\ pc = "returned"
     /\ \A i \in 1..Len(faces) : faces[i] # <<>>
     /\ ~has_duplicate_pair(faces)
     /\ has_open_pair(faces)) =>
        (result = "Err" /\ no_mesh)

(* C4: a face list with a face of fewer than three indices is rejected with *)
(* an error value; no returned mesh has a face of fewer than three corners. *)
C4_ShortFaceIsRejected ==
    /\ (pc = "returned" /\ has_short_face(faces)) => result = "Err"
    /\ returned_ok => \A f \in mesh_faces : Len(corners(f)) >= 3

(* C5: in a returned mesh twin is an involution and the endpoints of        *)
(* twin(e) are the endpoints of e swapped.                                  *)
C5_TwinInvolution ==
    returned_ok =>
        \A e \in mesh_edges :
            /\ twin(e) # Abort
            /\ twin(twin(e)) = e
            /\ endpoints(twin(e)) = <<endpoints(e)[2], endpoints(e)[1]>>

C5_Witness ==
    /\ returned_ok
    /\ \E e \in mesh_edges : twin(e) # e /\ root(twin(e)) # root(e)

(* C6: in a returned mesh, repeated next from e is back at e after exactly  *)
(* |corners(face(e))| steps and after no smaller positive number of steps.  *)
C6_NextCycleLength ==
    returned_ok =>
        \A e \in mesh_edges :
            LET cs == corners(face(e))
                w == next_walk(e, Len(cs))
            IN /\ cs # NoReturn
               /\ w[Len(cs)] = e
               /\ \A k \in 1..(Len(cs) - 1) : w[k] # e

C6_Witness ==
    /\ returned_ok
    /\ \E e \in mesh_edges : Len(corners(face(e))) >= 3 /\ next(e) # e

(* C7: in a returned mesh, edges(f) is as long as corners(f), repeats no    *)
(* half-edge, and every half-edge of it has face f.                         *)
C7_FaceBoundary ==
    returned_ok =>
        \A f \in mesh_faces :
            LET es == edges(f)
            IN /\ es # NoReturn
               /\ Len(es) = Len(corners(f))
               /\ \A j, k \in 1..Len(es) : es[j] = es[k] => j = k
               /\ \A k \in 1..Len(es) : face(es[k]) = f

C7_Witness ==
    /\ returned_ok
    /\ \E f, g \in mesh_faces : f # g /\ Len(edges(f)) >= 3

(* C8: for an accepted face list nr_verts is the number of distinct input   *)
(* indices, nr_edges the sum of the face lengths and nr_faces the number of *)
(* faces (tetrahedron 4, 12, 4; cube 8, 24, 6).                             *)
C8_Counts ==
    returned_ok =>
        /\ nr_verts = Cardinality(input_indices(faces))
        /\ nr_edges = SumLen(faces)
        /\ nr_faces = Len(faces)
        /\ faces = Tetrahedron =>
               nr_verts = 4 /\ nr_edges = 12 /\ nr_faces = 4
        /\ faces = Cube => nr_verts = 8 /\ nr_edges = 24 /\ nr_faces = 6

C8_Witness ==
    /\ returned_ok
    /\ orig = <<>>
    /\ faces = Cube
    /\ nr_edges = 24

(* C9: for an accepted face list, the corners of the face made for input    *)
(* position i, mapped back to input indices, are faces[i] element for       *)
(* element.                                                                 *)
C9_CornersAreInput ==
    returned_ok =>
        \A i \in 1..Len(faces) :
            LET cs == corners(get_by_left(face_pointers, i - 1))
            IN /\ cs # NoReturn
               /\ [k \in 1..Len(cs) |-> get_by_right(vertex_pointers, cs[k])]
                      = faces[i]

C9_Witness ==
    /\ returned_ok
    /\ \E i \in 1..Len(faces) :
          /\ Len(faces[i]) >= 3
          /\ faces[i][1] # faces[i][2]
          /\ faces[i][2] # faces[i][3]
          /\ corners(get_by_left(face_pointers, i - 1)) # NoReturn

(* The relabeling of the handles of the original mesh into the rebuilt one: *)
(* a vertex goes to the vertex made for its index, a face to the face made  *)
(* for its position, a half-edge to the half-edge at the same place of the  *)
(* boundary of its face.                                                    *)
vert_image(v) ==
    get_by_left(vertex_pointers,
                IF orig.vert_rev THEN Cardinality(orig.verts) - v ELSE v - 1)

face_image(f) ==
    get_by_left(face_pointers,
                (IF orig.face_rev THEN Cardinality(orig.faces) + 1 - f ELSE f) - 1)

edge_image(e) ==
    LET f == orig.face[e]
        k == CHOOSE j \in 1..Len(orig.edges_of[f]) : orig.edges_of[f][j] = e
    IN edges(face_image(f))[k]

(* C10: rebuilding from the corner lists read back from a returned mesh     *)
(* succeeds with an isomorphic mesh: same counts, and a relabeling of the   *)
(* handles under which root, face, next and twin correspond.                *)
C10_RoundTrip ==
    (pc = "returned" /\ orig # <<>>) =>
        /\ result = "Ok"
        /\ nr_verts = Cardinality(orig.verts)
        /\ nr_edges = Cardinality(orig.edges)
        /\ nr_faces = Cardinality(orig.faces)
        /\ {vert_image(v) : v \in orig.verts} = mesh_verts
        /\ {face_image(f) : f \in orig.faces} = mesh_faces
        /\ {edge_image(e) : e \in orig.edges} = mesh_edges
        /\ \A e \in orig.edges :
              /\ root(edge_image(e)) = vert_image(orig.root[e])
              /\ face(edge_image(e)) = face_image(orig.face[e])
              /\ next(edge_image(e)) = edge_image(orig.next[e])
              /\ twin(edge_image(e)) = edge_image(orig.twin[e])

C10_Witness ==
    /\ returned_ok
    /\ orig # <<>>
    /\ orig.vert_rev
    /\ orig.face_rev
    /\ Cardinality(orig.faces) >= 2
    /\ \E e \in orig.edges : edge_image(e) # e

(* the values of prev that C19 is tried with: every half-edge of a mesh of *)
(* at most MaxProbe half-edges, the first and the last one of a larger one *)
probe_edges ==
    IF nr_edges <= MaxProbe THEN mesh_edges
    ELSE {Min(mesh_edges), Max(mesh_edges)}

(* the face lists of the documented input domain: every face has at least *)
(* three indices, pairwise distinct                                        *)
well_formed(fs) ==
    \A i \in 1..Len(fs) :
        /\ Len(fs[i]) >= 3
        /\ \A j, k \in 1..Len(fs[i]) : fs[i][j] = fs[i][k] => j = k

(* a mesh is at hand: constructed, possibly edited since *)
in_mesh == pc \in {"returned", "edited"} /\ result = "Ok"

edge_handles == mesh_edges \cup DOMAIN edge_root
vert_handles == mesh_verts \cup DOMAIN vert_rep
face_handles == mesh_faces \cup DOMAIN face_rep

(* C11 as stated: each of the six accessors fails when the relation is     *)
(* undefined for the handle and when the stored target is not live.        *)
(* Stated for meshes of well-formed face lists.                            *)
C11_AllSixCheckLiveness ==
    (in_mesh /\ well_formed(faces)) =>
        /\ \A e \in edge_handles :
              /\ (e \notin DOMAIN edge_root \/ edge_root[e] \notin mesh_verts)
                     => root(e) = Abort
              /\ (e \notin DOMAIN edge_twin \/ edge_twin[e] \notin mesh_edges)
                     => twin(e) = Abort
              /\ (e \notin DOMAIN edge_next \/ edge_next[e] \notin mesh_edges)
                     => next(e) = Abort
              /\ (e \notin DOMAIN edge_face \/ edge_face[e] \notin mesh_faces)
                     => face(e) = Abort
        /\ \A v \in vert_handles :
              (v \notin DOMAIN vert_rep \/ vert_rep[v] \notin mesh_edges)
                  => vrep(v) = Abort
        /\ \A f \in face_handles :
              (f \notin DOMAIN face_rep \/ face_rep[f] \notin mesh_edges)
                  => frep(f) = Abort

(* C11 amended: root, twin, next and face fail when the relation is        *)
(* undefined or its target is not live, and yield the stored handle        *)
(* otherwise; vrep and frep fail only when the relation is undefined and   *)
(* yield the stored handle otherwise, live or not.                         *)
C11_AccessorFailures ==
    in_mesh =>
        /\ \A e \in edge_handles :
              /\ root(e) = IF e \in DOMAIN edge_root
                                /\ edge_root[e] \in mesh_verts
                           THEN edge_root[e] ELSE Abort
              /\ twin(e) = IF e \in DOMAIN edge_twin
                                /\ edge_twin[e] \in mesh_edges
                           THEN edge_twin[e] ELSE Abort
              /\ next(e) = IF e \in DOMAIN edge_next
                                /\ edge_next[e] \in mesh_edges
                           THEN edge_next[e] ELSE Abort
              /\ face(e) = IF e \in DOMAIN edge_face
                                /\ edge_face[e] \in mesh_faces
                           THEN edge_face[e] ELSE Abort
        /\ \A v \in vert_handles :
              vrep(v) = IF v \in DOMAIN vert_rep THEN vert_rep[v] ELSE Abort
        /\ \A f \in face_handles :
              frep(f) = IF f \in DOMAIN face_rep THEN face_rep[f] ELSE Abort

C11_Witness ==
    /\ pc = "edited"
    /\ well_formed(faces)
    /\ \E e \in mesh_edges : e \notin DOMAIN edge_twin /\ twin(e) = Abort
    /\ \E e \in mesh_edges :
          /\ e \in DOMAIN edge_root
          /\ edge_root[e] \notin mesh_verts
          /\ root(e) = Abort

(* every handle stored for a live element refers to a live element *)
references_live ==
    /\ \A e \in mesh_edges :
          /\ edge_root[e] \in mesh_verts
          /\ edge_face[e] \in mesh_faces
          /\ edge_next[e] \in mesh_edges
          /\ edge_twin[e] \in mesh_edges
    /\ \A v \in mesh_verts : vert_rep[v] \in mesh_edges
    /\ \A f \in mesh_faces : face_rep[f] \in mesh_edges

(* C12: on a mesh that passes verify_properties, verify_references returns *)
(* Ok exactly when every stored handle is live and returns Err otherwise.  *)
C12_ReferencesReturnsErr ==
    (checks # <<>> /\ checks.properties = "Ok") =>
        /\ checks.references = "Ok" <=> references_live
        /\ ~references_live => checks.references = "Err"

(* the four invariants at one half-edge, the walk limited to               *)
(* max_face_size calls of next                                             *)
invariants_at(e) ==
    /\ twin(twin(e)) = e
    /\ root(next(twin(e))) = root(e)
    /\ face(next(e)) = face(e)
    /\ e \in Range(next_walk(e, max_face_size))

(* C13: on a mesh that passes verify_properties and verify_references,     *)
(* verify_invariants returns Ok exactly when the four invariants hold at   *)
(* every half-edge, and otherwise Err with a half-edge that violates one.  *)
C13_InvariantsExact ==
    (/\ checks # <<>>
     /\ checks.properties = "Ok"
     /\ checks.references = "Ok") =>
        /\ checks.invariants = "Ok" <=> \A e \in mesh_edges : invariants_at(e)
        /\ checks.invariants # "Ok" =>
              /\ checks.invariants = "Err"
              /\ checks.named \in mesh_edges
              /\ ~invariants_at(checks.named)

C13_Witness ==
    /\ checks # <<>>
    /\ checks.properties = "Ok"
    /\ checks.references = "Ok"
    /\ checks.invariants = "Err"
    /\ checks.named \in mesh_edges

(* C20 as stated: the position at place k of the array is on the vertex    *)
(* created for the k-th distinct index of the face list in the order of    *)
(* first appearance.  Stated for well-formed face lists.                   *)
C20_PositionsByFirstAppearance ==
    (pc = "embedded" /\ embedded = "Ok" /\ well_formed(faces)) =>
        \A k \in 1..Len(vertex_positions) :
            k <= Len(vertices) =>
                position[get_by_left(vertex_pointers, vertices[k])]
                    = vertex_positions[k]

(* C20 amended: the position at index k of the array is on the vertex that *)
(* the index map gives for the input index k, every other vertex keeps the *)
(* default position, and the constructor aborts when some k below the      *)
(* length of the array is no index of the face list.                       *)
C20_PositionsByIndex ==
    (pc = "embedded" /\ result = "Ok") =>
        LET n == Len(vertex_positions)
        IN /\ (\E k \in 0..(n - 1) : k \notin input_indices(faces))
                  => embedded = "panic"
           /\ embedded = "Ok" =>
                 \A v \in mesh_verts :
                     LET i == get_by_right(vertex_pointers, v)
                     IN position[v] = IF i < n THEN vertex_positions[i + 1]
                                      ELSE Default

C20_Witness ==
    /\ pc = "embedded"
    /\ well_formed(faces)
    /\ embedded = "Ok"
    /\ Len(vertex_positions) = nr_verts
    /\ nr_verts >= 3
    /\ \E k \in 1..Len(vertices) : vertices[k] # k - 1
    /\ \A v \in mesh_verts : position[v] # Default

(* the total weights of the walks from a to x of at most k steps *)
RECURSIVE walk_costs(_, _, _)
walk_costs(a, x, k) ==
    (IF x = a THEN {0} ELSE {}) \cup
    (IF k = 0 THEN {}
     ELSE UNION {{c + weights[<<y, x>>] : c \in walk_costs(a, y, k - 1)} :
                 y \in {z \in Nodes : x \in Range(neighbors[z])}})

(* the sum of weight(x, y) over the consecutive pairs of path from the     *)
(* k-th element on                                                         *)
RECURSIVE path_weight(_, _)
path_weight(path, k) ==
    IF k >= Len(path) THEN 0
    ELSE weights[<<path[k], path[k + 1]>>] + path_weight(path, k + 1)

(* C14: find_shortest_path(a, b, ..) is None exactly when b cannot be      *)
(* reached from a; otherwise its path runs from a to b along the neighbor  *)
(* function, its cost is the sum of the weights along the path and no walk *)
(* from a to b weighs less; for a = b it is ([a], 0).                      *)
C14_ShortestPath ==
    (pc = "search" /\ query # <<>> /\ query[1] = "path") =>
        LET a == query[2]
            b == query[3]
            cs == walk_costs(a, b, MaxNodes)
        IN /\ found = None <=> cs = {}
           /\ found # None =>
                 LET path == found[1]
                     cost == found[2]
                 IN /\ path[1] = a
                    /\ path[Len(path)] = b
                    /\ \A k \in 1..(Len(path) - 1) :
                           path[k + 1] \in Range(neighbors[path[k]])
                    /\ cost = path_weight(path, 1)
                    /\ \A c \in cs : cost <= c
           /\ a = b => found = << <<a>>, 0 >>

C14_Witness ==
    /\ pc = "search"
    /\ query # <<>>
    /\ query[1] = "path"
    /\ found # None
    /\ Len(found[1]) >= 3
    /\ query[3] \in Range(neighbors[query[2]])
    /\ weights[<<query[2], query[3]>>] > found[2]

(* C15: every cache entry is the list of (n, weight(x, n)) for n in        *)
(* neighbor(x), in order, and a search on a cache filled by earlier        *)
(* searches returns what the same search returns on an empty cache.        *)
C15_CacheIsTransparent ==
    pc = "search" =>
        /\ \A x \in DOMAIN cache :
              /\ Len(cache[x]) = Len(neighbors[x])
              /\ \A k \in 1..Len(cache[x]) :
                    cache[x][k] = <<neighbors[x][k],
                                    weights[<<x, neighbors[x][k]>>]>>
        /\ (query # <<>> /\ query[1] = "path") =>
              found = find_shortest_path(query[2], query[3], EmptyMap).result

C15_Witness ==
    /\ pc = "search"
    /\ query # <<>>
    /\ query[1] = "path"
    /\ found # None
    /\ Len(found[1]) >= 2
    /\ \E x \in DOMAIN cache :
          x \notin DOMAIN find_shortest_path(query[2], query[3],
                                             EmptyMap).cache

(* C16: find_shortest_cycle(a, ..) is None exactly when no neighbor of a   *)
(* has a path back to a; otherwise it is a followed by the shortest path   *)
(* from a neighbor n back to a, with that path's cost, and no neighbor has *)
(* a cheaper path back.                                                    *)
C16_ShortestCycle ==
    (pc = "search" /\ query # <<>> /\ query[1] = "cycle") =>
        LET a == query[2]
            ns == neighbors[a]
            back(k) == find_shortest_path(ns[k], a, EmptyMap).result
            exist == {k \in 1..Len(ns) :
                         walk_costs(ns[k], a, MaxNodes) # {}}
        IN /\ found = None <=> exist = {}
           /\ found # None =>
                 /\ \E k \in exist :
                       /\ found[1] = <<a>> \o back(k)[1]
                       /\ found[2] = back(k)[2]
                 /\ \A k \in exist :
                       found[2] <= Min(walk_costs(ns[k], a, MaxNodes))

C16_Witness ==
    /\ pc = "search"
    /\ query # <<>>
    /\ query[1] = "cycle"
    /\ found # None
    /\ Len(neighbors[query[2]]) = 2
    /\ \A k \in 1..2 :
          walk_costs(neighbors[query[2]][k], query[2], MaxNodes) # {}
    /\ Min(walk_costs(neighbors[query[2]][1], query[2], MaxNodes))
           > Min(walk_costs(neighbors[query[2]][2], query[2], MaxNodes))

(* C21: on a returned mesh graph and graph_euclidean have the vertices as  *)
(* nodes and one edge root(e) -> root(twin(e)) for every half-edge e, no   *)
(* two half-edges on the same ordered pair: nr_verts nodes, nr_edges edges.*)
C21_GraphCounts ==
    returned_ok =>
        /\ ~graph_panics
        /\ graph.nodes = mesh_verts
        /\ node_count(graph) = nr_verts
        /\ edge_count(graph) = nr_edges
        /\ DOMAIN graph.edges =
               {<<root(e), root(twin(e))>> : e \in mesh_edges}
        /\ node_count(graph_euclidean) = nr_verts
        /\ edge_count(graph_euclidean) = nr_edges

C21_Witness ==
    /\ returned_ok
    /\ well_formed(faces)
    /\ nr_verts >= 4
    /\ edge_count(graph) = nr_edges
    /\ nr_edges >= 12

(* C22: every mesh that from_faces returns passes the closed-loop test of  *)
(* verify_invariants at every half-edge, whatever the length of its faces. *)
C22_WalkBoundIsNoLimit ==
    returned_ok => \A e \in mesh_edges : closes(e) = "Ok"

(* C23: from_embedded_faces reports the first face, in keys() order, that  *)
(* has a defect, and the kind of the defect: FaceNotPolygon for fewer than *)
(* 3 corners, else FaceNotPlanar for a corner off the plane of the first   *)
(* three, else FaceNotSimple for two edges that cross.  Stated for         *)
(* well-formed face lists.                                                 *)
C23_DefectKinds ==
    (/\ pc = "embedded"
     /\ result = "Ok"
     /\ embedded # "panic"
     /\ well_formed(faces)) =>
        LET short == {f \in 1..Len(faces) : Len(faces[f]) < 3}
            bad == defect[1]
            kind == defect[2]
            skew == /\ bad # Abort
                    /\ kind \in {"skew", "both"}
                    /\ Len(faces[bad]) > 3
            crossing == /\ bad # Abort
                        /\ kind \in {"crossing", "both"}
                        /\ Len(faces[bad]) >= 3
            flawed == short \cup (IF skew \/ crossing THEN {bad} ELSE {})
        IN embedded = IF flawed = {} THEN "Ok"
                      ELSE IF Min(flawed) \in short THEN "FaceNotPolygon"
                      ELSE IF skew THEN "FaceNotPlanar"
                      ELSE "FaceNotSimple"

(* C24: of the neighbors of a whose path back to a has the least cost,    *)
(* find_shortest_cycle returns the path of the one that comes first in    *)
(* neighbor_function(a).                                                   *)
C24_FirstOfTheCheapest ==
    (pc = "search" /\ query # <<>> /\ query[1] = "cycle" /\ found # None) =>
        LET a == query[2]
            ns == neighbors[a]
            back(k) == find_shortest_path(ns[k], a, EmptyMap).result
            exist == {k \in 1..Len(ns) : back(k) # None}
            least == Min({back(k)[2] : k \in exist})
            first == Min({k \in exist : back(k)[2] = least})
        IN found = <<(<<a>> \o back(first)[1]), least>>

C24_Witness ==
    /\ pc = "search"
    /\ query # <<>>
    /\ query[1] = "cycle"
    /\ found # None
    /\ Len(neighbors[query[2]]) = 2
    /\ LET a == query[2]
           b1 == find_shortest_path(neighbors[a][1], a, EmptyMap).result
           b2 == find_shortest_path(neighbors[a][2], a, EmptyMap).result
       IN /\ b1 # None
          /\ b2 # None
          /\ b1[2] = b2[2]
          /\ b1[1] # b2[1]
          /\ found[1] = <<a>> \o b1[1]

(* C25: on a returned mesh the representative of a vertex is rooted at    *)
(* the vertex and the representative of a face lies in the face.           *)
C25_RepsPointHome ==
    returned_ok =>
        /\ \A v \in mesh_verts : root(vrep(v)) = v
        /\ \A f \in mesh_faces : face(frep(f)) = f

C25_Witness ==
    /\ returned_ok
    /\ well_formed(faces)
    /\ nr_faces >= 2
    /\ \E v \in mesh_verts :
          /\ root(vrep(v)) = v
          /\ \E e \in mesh_edges : e # vrep(v) /\ root(e) = v

(* C26: on a returned mesh outgoing(v) holds every half-edge rooted at v,  *)
(* each once; vneighbors(v) then holds every vertex joined to v and        *)
(* star(v) every face at v.  Stated for well-formed face lists.            *)
C26_OutgoingIsComplete ==
    (returned_ok /\ well_formed(faces)) =>
        \A v \in mesh_verts :
            LET og == outgoing(v)
                rooted == {e \in mesh_edges : root(e) = v}
            IN /\ og # NoReturn
               /\ Range(og) = rooted
               /\ Len(og) = Cardinality(rooted)
               /\ Range(vneighbors(v)) = {root(twin(e)) : e \in rooted}
               /\ Range(star(v)) = {face(e) : e \in rooted}

(* C28: on a mesh returned for faces of at least 3 pairwise distinct       *)
(* indices no half-edge is its own twin, the twin starts at another vertex *)
(* and lies in another face; the number of half-edges is even.             *)
C28_TwinLeaves ==
    (returned_ok /\ well_formed(faces)) =>
        /\ \A e \in mesh_edges :
              /\ twin(e) # e
              /\ root(twin(e)) # root(e)
              /\ face(twin(e)) # face(e)
        /\ nr_edges % 2 = 0

C28_Witness ==
    /\ returned_ok
    /\ well_formed(faces)
    /\ nr_edges >= 6
    /\ \A e \in mesh_edges : twin(e) # Abort /\ twin(e) # e

(* C29: on a mesh that passes the three verification passes edges(f)       *)
(* returns for every face and outgoing(v) for every vertex, each a list    *)
(* without repeats of at most nr_edges half-edges.                         *)
C29_TraversalsReturn ==
    (/\ checks # <<>>
     /\ checks.properties = "Ok"
     /\ checks.references = "Ok"
     /\ checks.invariants = "Ok") =>
        /\ \A f \in mesh_faces :
              LET es == edges(f)
              IN /\ es # NoReturn
                 /\ Len(es) <= nr_edges
                 /\ Cardinality(Range(es)) = Len(es)
        /\ \A v \in mesh_verts :
              LET og == outgoing(v)
              IN /\ og # NoReturn
                 /\ Len(og) <= nr_edges
                 /\ Cardinality(Range(og)) = Len(og)

C29_Witness ==
    /\ checks # <<>>
    /\ checks.properties = "Ok"
    /\ checks.references = "Ok"
    /\ checks.invariants = "Ok"
    /\ nr_faces >= 2
    /\ \E f \in mesh_faces : edges(f) # NoReturn /\ Len(edges(f)) >= 3
    /\ \E v \in mesh_verts : outgoing(v) # NoReturn /\ Len(outgoing(v)) >= 2

C30_NoAliasing == pc = "memory" => ~aliased

(* C17: on a returned mesh outgoing(v) starts with vrep(v), continues with *)
(* next(twin(previous)), repeats no half-edge, holds only half-edges       *)
(* rooted at v, and closes: next(twin(last)) is vrep(v).                   *)
C17_OutgoingIsCycle ==
    returned_ok =>
        \A v \in mesh_verts :
            LET og == outgoing(v)
            IN /\ og # NoReturn
               /\ og[1] = vrep(v)
               /\ \A k \in 2..Len(og) : og[k] = next(twin(og[k - 1]))
               /\ \A j, k \in 1..Len(og) : og[j] = og[k] => j = k
               /\ \A k \in 1..Len(og) : root(og[k]) = v
               /\ next(twin(og[Len(og)])) = vrep(v)

C17_Witness ==
    /\ returned_ok
    /\ \E v \in mesh_verts :
          /\ outgoing(v) # NoReturn
          /\ Len(outgoing(v)) >= 3
          /\ root(outgoing(v)[3]) = v

(* C18: on a returned mesh edge_between_verts(a, b) yields a twin-linked   *)
(* pair (ea, eb) rooted at a and b whenever a half-edge runs from a to b,  *)
(* and None exactly when none does.  Stated for well-formed face lists.    *)
C18_EdgeBetweenVerts ==
    (returned_ok /\ well_formed(faces)) =>
        \A a, b \in mesh_verts :
            LET r == edge_between_verts(a, b)
                joined == \E e \in mesh_edges :
                              root(e) = a /\ root(twin(e)) = b
            IN /\ r # NoReturn
               /\ (r = None) <=> ~joined
               /\ r # None =>
                      root(r[1]) = a /\ root(r[2]) = b /\ twin(r[1]) = r[2]

(* C19: in the edge-pair view the neighbors of (prev, cur) are the pairs   *)
(* (twin(cur), c) for the half-edges c of edges(face(twin(cur))), in that  *)
(* order, without c = twin(cur): one pair fewer than the face has          *)
(* half-edges, whatever prev is.                                           *)
C19_EdgePairNeighbors ==
    returned_ok =>
        \A cur \in mesh_edges :
            LET nb == neighbor_function_edgepairgraph(<<cur, cur>>)
                t == twin(cur)
                es == edges(face(t))
                skip == CHOOSE j \in 1..Len(es) : es[j] = t
            IN /\ nb # NoReturnPairs
               /\ Len(nb) = Len(es) - 1
               /\ \A k \in 1..Len(nb) :
                      /\ nb[k][1] = t
                      /\ nb[k][2] # t
                      /\ nb[k][2] = es[IF k < skip THEN k ELSE k + 1]
               /\ \A prev \in probe_edges :
                      neighbor_function_edgepairgraph(<<prev, cur>>) = nb

C19_Witness ==
    /\ returned_ok
    /\ \E prev, cur \in mesh_edges :
          /\ prev # cur
          /\ Len(neighbor_function_edgepairgraph(<<prev, cur>>)) >= 2
          /\ face(twin(cur)) # face(cur)

====
